---------------------------- MODULE Spec2Model ----------------------------
(***************************************************************************)
(* Model of the debug-adapter backend of starlark-rust                     *)
(* (src/starlark/bin/dap/mod.rs).                                          *)
(*                                                                         *)
(* The backend owns a pending launch target (file), a breakpoint registry  *)
(* (breakpoints) behind a mutex (bpLock), and one command channel          *)
(* (sender/receiver).  Protocol                                            *)
(* threads handle requests; each configurationDone spawns an execution     *)
(* thread that evaluates the launch file, calling the statement hook       *)
(* before every statement.  On a breakpoint hit the hook emits a stopped   *)
(* event and serves injected units of work until one answers Continue.     *)
(*                                                                         *)
(* The interpreter (parser, evaluator, debug helpers) is not part of the   *)
(* file; it is modelled from its interface: a parsed file is a list of     *)
(* statement spans plus the order in which evaluation visits them.         *)
(* The handlers initialize, threads and setExceptionBreakpoints touch      *)
(* no state that any other handler reads and are not modelled.             *)
(***************************************************************************)
EXTENDS Integers, Sequences, FiniteSets, TLC

(***************************************************************************)
(* Bounds of the model.                                                    *)
(***************************************************************************)
\* number of protocol-handling threads that may be inside a handler at once
NThreads == 2
\* number of execution threads configurationDone may spawn in one run
MaxSessions == 2
\* longest breakpoint list of one setBreakpoints request
MaxLines == 2

Threads == 1..NThreads
Sessions == 1..MaxSessions

\* an absent string (a path, a request kind)
None == "None"
\* Option of a structured value: Nothing, or Some(x)
Nothing == <<>>
Some(x) == <<x>>
Unwrap(o) == o[1]

(***************************************************************************)
(* Spans and locations.  A Span is a source range inside one code map;     *)
(* here a span is its 0-based begin/end line and column.  The same span    *)
(* value can occur in the code maps of different files.                    *)
(***************************************************************************)
Pos(l, c) == [line |-> l, column |-> c]
Sp(bl, bc, el, ec) == [begin |-> Pos(bl, bc), end |-> Pos(el, ec)]

\* SpanLoc: a span resolved against the code map of a file
SpanLoc(f, span) == [file |-> f, begin |-> span.begin, end |-> span.end]

(***************************************************************************)
(* The files on disk.                                                      *)
(*   "a.star":   def g(): return 1                                         *)
(*               def f(): return g()                                       *)
(*               f()                                                       *)
(*   "b.star":   y = 1                                                     *)
(*               z = 1 // (2 - y)                                          *)
(* Either file can also be in a state that does not parse.                 *)
(***************************************************************************)
FileA == "a.star"
FileB == "b.star"
Files == {FileA, FileB}

A_defg == Sp(0, 0, 0, 17)
A_ret1 == Sp(0, 9, 0, 17)
A_deff == Sp(1, 0, 1, 19)
A_retg == Sp(1, 9, 1, 19)
A_call == Sp(2, 0, 2, 3)
B_asgn == Sp(0, 0, 0, 5)
B_div == Sp(1, 0, 1, 16)

\* values of the interpreter
IntV(n) == [type |-> "int", v |-> n]
FunV(n) == [type |-> "function", v |-> n]
NoneV == [type |-> "NoneType", v |-> 0]

\* a call-stack frame as the interpreter records it: the function entered
\* and the location of the call that entered it
Frame(n, loc) == [name |-> n, location |-> loc]

\* one visit of a statement by eval_module: its span, the call stack at the
\* visit, the bindings executing it adds, and whether it divides by 2 - y
Step(span, stack, binds, div) ==
    [span |-> span, stack |-> stack, binds |-> binds, div |-> div]

NoBinds == [n \in {} |-> NoneV]

\* debug::stmt_locations of a parsed file, in source order
StmtLocations(f) ==
    IF f = FileA THEN <<A_defg, A_ret1, A_deff, A_retg, A_call>>
    ELSE <<B_asgn, B_div>>

\* the statements eval_module visits, in order
Trace(f) ==
    IF f = FileA THEN
      << Step(A_defg, <<>>, [n \in {"g"} |-> FunV("g")], FALSE),
         Step(A_deff, <<>>, [n \in {"f"} |-> FunV("f")], FALSE),
         Step(A_call, <<>>, NoBinds, FALSE),
         Step(A_retg, <<Frame("f", Some(SpanLoc(FileA, Sp(2, 0, 2, 3))))>>, NoBinds, FALSE),
         Step(A_ret1, <<Frame("f", Some(SpanLoc(FileA, Sp(2, 0, 2, 3)))),
                        Frame("g", Some(SpanLoc(FileA, Sp(1, 16, 1, 19))))>>, NoBinds, FALSE) >>
    ELSE
      << Step(B_asgn, <<>>, [n \in {"y"} |-> IntV(1)], FALSE),
         Step(B_div, <<>>, [n \in {"z"} |-> IntV(1)], TRUE) >>

\* executing the statement raises: the division by 2 - y is by zero
Raises(step, vars) ==
    step.div /\ "y" \in DOMAIN vars /\ vars["y"].type = "int" /\ vars["y"].v = 2

\* the value eval_module returns for a file that runs to its end: that of
\* its last statement
ModuleValue(f) == IF f = FileA THEN IntV(1) ELSE NoneV

\* the result of parse_file: the file when it parses, None when it does not
ParseResults(f) == {f, None}


(***************************************************************************)
(* Pure helpers of the handlers.                                           *)
(***************************************************************************)
\* machine word of "x.line as usize".  The real word has 64 bits; TLC's
\* integers have 32, so the model keeps a 16-bit word: every modulus above
\* the largest line number of a file gives the same lookups.
UsizeBits == 16
UsizeMod == 2 ^ UsizeBits
AsUsize(n) == n % UsizeMod

\* the lines a breakpoint request may name
Lines == {-1, 0, 1, 2, 3, 4}

RECURSIVE SeqsUpTo(_, _)
SeqsUpTo(S, n) ==
    IF n = 0 THEN {<<>>}
    ELSE LET shorter == SeqsUpTo(S, n - 1)
         IN  shorter \cup {Append(q, x) : q \in {r \in shorter : Len(r) = n - 1}, x \in S}

LineLists == SeqsUpTo(Lines, MaxLines)

\* fn breakpoint(verified)
Breakpoint(verified) == [verified |-> verified]

\* poss: HashMap<usize, Span> collected from stmt_locations; a later
\* statement starting on the same line replaces an earlier one
RECURSIVE CollectPoss(_, _)
CollectPoss(locs, acc) ==
    IF locs = <<>> THEN acc
    ELSE LET x == Head(locs)
             l == x.begin.line
         IN  CollectPoss(Tail(locs),
                 [k \in DOMAIN acc \cup {l} |-> IF k = l THEN x ELSE acc[k]])

Poss(ast) == CollectPoss(StmtLocations(ast), [k \in {} |-> A_defg])

\* poss.get(&(x.line as usize - 1)); the subtraction wraps (release build)
PossGet(poss, line) ==
    LET k == (AsUsize(line) + UsizeMod - 1) % UsizeMod
    IN  IF k \in DOMAIN poss THEN Some(poss[k]) ELSE Nothing

\* "x.line as usize - 1" overflows
Overflows(line) == AsUsize(line) = 0

\* list = breakpoints.map(|x| poss.get(..))
Lookups(ast, lines) == [i \in DOMAIN lines |-> PossGet(Poss(ast), lines[i])]

\* list.iter().filter_map(|x| x.copied()).collect()
Matched(list) == {Unwrap(list[i]) : i \in {j \in DOMAIN list : list[j] # Nothing}}

\* list.map(|x| breakpoint(x.is_some()))
Verified(list) == [i \in DOMAIN list |-> Breakpoint(list[i] # Nothing)]

\* vec![breakpoint(false); breakpoints.len()]
AllUnverified(lines) == [i \in DOMAIN lines |-> Breakpoint(FALSE)]

\* Value::to_string
IntStr(n) == IF n = 0 THEN "0" ELSE IF n = 1 THEN "1" ELSE IF n = 2 THEN "2" ELSE "?"
ValueToString(v) ==
    IF v.type = "int" THEN IntStr(v.v)
    ELSE IF v.type = "function" THEN "<function " \o v.v \o ">"
    ELSE "None"

\* stack_trace::convert_frame
ConvertFrame(id, name, location) ==
    IF location = Nothing
    THEN [id |-> id, name |-> name, line |-> 0, column |-> 0,
          end_line |-> Nothing, end_column |-> Nothing, source |-> Nothing]
    ELSE LET loc == Unwrap(location)
         IN  [id |-> id, name |-> name,
              line |-> loc.begin.line + 1,
              column |-> loc.begin.column + 1,
              end_line |-> Some(loc.end.line + 1),
              end_column |-> Some(loc.end.column + 1),
              source |-> Some([path |-> loc.file])]

ReverseNot(q) == q
\* frames.iter().rev()
Reverse(q) == [i \in 1..Len(q) |-> q[Len(q) + 1 - i]]

\* id of the synthetic frame
RootId == 10000

StackTraceBodyRootAtPause(frames, spanloc) ==
    LET rev == Reverse(frames)
        n == Len(rev)
        next(i) == IF i = 1 THEN Some(spanloc) ELSE rev[i - 1].location
        res == [i \in 1..(n + 1) |->
                  IF i <= n THEN ConvertFrame(i - 1, rev[i].name, next(i))
                  ELSE ConvertFrame(RootId, "Root", Some(spanloc))]
    IN  [total_frames |-> Len(res), stack_frames |-> res]
\* the closure of stack_trace: frames is the call stack, oldest call first,
\* spanloc the resolved pause span
StackTraceBody(frames, spanloc) ==
    LET rev == Reverse(frames)
        n == Len(rev)
        \* value of "next" when the i-th reversed frame is pushed (1-based)
        next(i) == IF i = 1 THEN Some(spanloc) ELSE rev[i - 1].location
        res == [i \in 1..(n + 1) |->
                  IF i <= n THEN ConvertFrame(i - 1, rev[i].name, next(i))
                  ELSE ConvertFrame(RootId, "Root", next(n + 1))]
    IN  [total_frames |-> Len(res), stack_frames |-> res]

\* reference id of the only scope
LocalsRef == 2000

\* the closure of scopes over debug::inspect_variables
ScopesBody(vars) ==
    [scopes |-> << [name |-> "Locals",
                    named_variables |-> Cardinality(DOMAIN vars),
                    variables_reference |-> LocalsRef,
                    expensive |-> FALSE] >>]

\* the closure of variables over debug::inspect_variables
VariablesBody(vars) ==
    [variables |-> [n \in DOMAIN vars |->
                      [name |-> n, value |-> ValueToString(vars[n]),
                       type |-> vars[n].type, variables_reference |-> 0]]]

(***************************************************************************)
(* debug::evaluate, from the interpreter's interface: the expression is    *)
(* parsed into its own code map and run against the live bindings.         *)
(***************************************************************************)
Exprs == {"y", "y = 2"}
ExprSpan(e) == IF e = "y" THEN Sp(0, 0, 0, 1) ELSE Sp(0, 0, 0, 5)

Ok(v) == [ok |-> TRUE, v |-> v]
Err(e) == [ok |-> FALSE, v |-> e]

\* the value or error of running the expression against bindings vars
EvalResult(e, vars) ==
    IF e = "y"
    THEN IF "y" \in DOMAIN vars THEN Ok(vars["y"]) ELSE Err("Variable y not found")
    ELSE Ok(NoneV)

\* the bindings after running the expression
EvalBinds(e, vars) ==
    IF e = "y" THEN vars
    ELSE [n \in DOMAIN vars \cup {"y"} |-> IF n = "y" THEN IntV(2) ELSE vars[n]]

\* match debug::evaluate(..) { Err(e) => format!("{:#}", e), Ok(v) => v.to_string() }
Render(r) == IF r.ok THEN ValueToString(r.v) ELSE r.v

\* the body of the evaluate response
EvaluateBody(s) == [result |-> s, variables_reference |-> 0]


(***************************************************************************)
(* State.                                                                  *)
(***************************************************************************)
VARIABLES
    file,         \* Backend.file: the pending launch target, or None
    breakpoints,  \* Backend.breakpoints: a map from file to set of spans
    bpLock,       \* holder of the mutex around Backend.breakpoints, 0 = free
    queue,        \* the command channel: units of work sent and not yet received
    recvLock,     \* holder of the mutex around Backend.receiver, 0 = free
    tpc,          \* per protocol thread: "idle", or "waiting" inside inject
    treq,         \* per protocol thread: the request it is handling, or None
    reply,        \* per protocol thread: its private reply channel of inject
    response,     \* what the handler step just taken returned, else NoResponse
    spc,          \* per execution thread: where it is
    spath,        \* per execution thread: the path execute was called with
    ctx,          \* per execution thread: its Evaluator
    units,        \* per execution thread: the units of work it is running
    res,          \* per execution thread: the result of go, Nothing before
    events        \* per execution thread: the events it sent to the client

vars == <<file, breakpoints, bpLock, queue, recvLock, tpc, treq, reply, response,
          spc, spath, ctx, units, res, events>>

protoVars == <<tpc, treq, reply>>
sessVars == <<spc, spath, ctx, units, res, events>>

NoResponse == [kind |-> "none"]

\* HashMap: new, remove, insert, get
EmptyMap == [k \in {} |-> {}]
MapRemoveKeeps(m, k) == m
MapRemove(m, k) == [j \in DOMAIN m \ {k} |-> m[j]]
MapInsert(m, k, v) == [j \in DOMAIN m \cup {k} |-> IF j = k THEN v ELSE m[j]]
MapGet(m, k) == IF k \in DOMAIN m THEN Some(m[k]) ELSE Nothing

\* the Evaluator before go builds it
NoCtx == [idx |-> 0, vars |-> NoBinds, on_stmt |-> FALSE]

Init ==
    /\ file = None
    /\ breakpoints = EmptyMap
    /\ bpLock = 0
    /\ queue = <<>>
    /\ recvLock = 0
    /\ tpc = [t \in Threads |-> "idle"]
    /\ treq = [t \in Threads |-> None]
    /\ reply = [t \in Threads |-> <<>>]
    /\ response = NoResponse
    /\ spc = [s \in Sessions |-> "unborn"]
    /\ spath = [s \in Sessions |-> None]
    /\ ctx = [s \in Sessions |-> NoCtx]
    /\ units = [s \in Sessions |-> <<>>]
    /\ res = [s \in Sessions |-> Nothing]
    /\ events = [s \in Sessions |-> <<>>]

(***************************************************************************)
(* Handlers that answer without the command channel.                       *)
(***************************************************************************)
\* the values of args.get("program"): a path, or missing / not a string
Programs == Files \cup {None}

LaunchClears(program) ==
    /\ IF program # None
       THEN /\ file' = program
            /\ response' = [kind |-> "launch", ok |-> TRUE]
       ELSE /\ file' = None
            /\ response' = [kind |-> "launch", ok |-> FALSE]
    /\ UNCHANGED <<breakpoints, bpLock, queue, recvLock, protoVars, sessVars>>
\* DebugServer::launch
Launch(program) ==
    /\ IF program # None
       THEN /\ file' = program
            /\ response' = [kind |-> "launch", ok |-> TRUE]
       ELSE /\ file' = file
            /\ response' = [kind |-> "launch", ok |-> FALSE]
    /\ UNCHANGED <<breakpoints, bpLock, queue, recvLock, protoVars, sessVars>>

\* Backend::execute up to thread::spawn: the new thread owns path
Execute(path) ==
    LET s == CHOOSE u \in Sessions : spc[u] = "unborn" /\ \A w \in 1..(u - 1) : spc[w] # "unborn"
    IN  /\ spc' = [spc EXCEPT ![s] = "spawned"]
        /\ spath' = [spath EXCEPT ![s] = path]

\* DebugServer::configuration_done
ConfigurationDone ==
    /\ file # None => \E s \in Sessions : spc[s] = "unborn"
    /\ IF file # None
       THEN Execute(file)
       ELSE UNCHANGED <<spc, spath>>
    /\ response' = [kind |-> "configurationDone", ok |-> TRUE]
    /\ UNCHANGED <<file, breakpoints, bpLock, queue, recvLock, protoVars, ctx, units, res, events>>

\* holder of the registry mutex once a statement of set_breakpoints that
\* locks it has ended: the guard is a temporary of that statement
HandlerGuard == 0

\* DebugServer::set_breakpoints.  ast is the outcome of parse_file; checked
\* tells whether the build traps on integer overflow.
SetBreakpoints(source, lines, ast, checked) ==
    /\ bpLock = 0
    /\ bpLock' = HandlerGuard
    /\ IF lines = <<>>
       THEN /\ breakpoints' = MapRemove(breakpoints, source)
            /\ response' = [kind |-> "setBreakpoints", source |-> source,
                            lines |-> lines, parsed |-> "unread", breakpoints |-> <<>>]
       ELSE IF ast = None
       THEN /\ breakpoints' = MapRemove(breakpoints, source)
            /\ response' = [kind |-> "setBreakpoints", source |-> source,
                            lines |-> lines, parsed |-> "no",
                            breakpoints |-> AllUnverified(lines)]
       ELSE IF checked /\ \E i \in DOMAIN lines : Overflows(lines[i])
       THEN \* panic: attempt to subtract with overflow
            /\ breakpoints' = breakpoints
            /\ response' = [kind |-> "panic", source |-> source, lines |-> lines]
       ELSE LET list == Lookups(ast, lines)
            IN  /\ breakpoints' = MapInsert(breakpoints, source, Matched(list))
                /\ response' = [kind |-> "setBreakpoints", source |-> source,
                                lines |-> lines, parsed |-> "yes",
                                breakpoints |-> Verified(list)]
    /\ UNCHANGED <<file, queue, recvLock, protoVars, sessVars>>

(***************************************************************************)
(* The command channel.                                                    *)
(***************************************************************************)
\* what inject_continue and with_ctx make of a closure's result
UnitValue == [unit |-> "()"]
InjectContinue == [next |-> "Continue", res |-> UnitValue]
WithCtxContinues(r) == [next |-> "Continue", res |-> r]
WithCtx(r) == [next |-> "RemainPaused", res |-> r]

\* a unit of work on the channel: the request it serves, the reply channel
\* its closure owns, and (for evaluate) the expression
Cmd(kind, t, e) == [kind |-> kind, from |-> t, expr |-> e, old |-> Nothing]

InjectDrops(t, kind, e) ==
    /\ tpc[t] = "idle"
    /\ queue' = IF \E s \in Sessions : spc[s] \in {"lock", "recv"}
                THEN Append(queue, Cmd(kind, t, e)) ELSE queue
    /\ tpc' = [tpc EXCEPT ![t] = "waiting"]
    /\ treq' = [treq EXCEPT ![t] = kind]
    /\ response' = NoResponse
    /\ UNCHANGED <<file, breakpoints, bpLock, recvLock, reply, sessVars>>
InjectFails(t, kind, e) ==
    /\ tpc[t] = "idle"
    /\ IF \A s \in Sessions : spc[s] \in {"unborn", "done"}
       THEN /\ queue' = queue
            /\ reply' = [reply EXCEPT ![t] = <<[from |-> t, res |-> Err("no session")]>>]
       ELSE /\ queue' = Append(queue, Cmd(kind, t, e))
            /\ reply' = reply
    /\ tpc' = [tpc EXCEPT ![t] = "waiting"]
    /\ treq' = [treq EXCEPT ![t] = kind]
    /\ response' = NoResponse
    /\ UNCHANGED <<file, breakpoints, bpLock, recvLock, sessVars>>
\* Backend::inject up to self.sender.send: the caller then blocks in recv
Inject(t, kind, e) ==
    /\ tpc[t] = "idle"
    /\ queue' = Append(queue, Cmd(kind, t, e))
    /\ tpc' = [tpc EXCEPT ![t] = "waiting"]
    /\ treq' = [treq EXCEPT ![t] = kind]
    /\ response' = NoResponse
    /\ UNCHANGED <<file, breakpoints, bpLock, recvLock, reply, sessVars>>

StackTrace(t) == Inject(t, "stackTrace", None)
Scopes(t) == Inject(t, "scopes", None)
Variables(t) == Inject(t, "variables", None)
Continue(t) == Inject(t, "continue", None)
Evaluate(t, e) == Inject(t, "evaluate", e)

\* what the handler makes of the value inject returned
HandlerResult(kind, r) == IF kind = "continue" THEN [all_threads_continued |-> Nothing] ELSE r

\* Backend::inject from receiver.recv() on: the handler returns
InjectReturn(t) ==
    /\ tpc[t] = "waiting"
    /\ reply[t] # <<>>
    /\ response' = [kind |-> treq[t], thread |-> t, from |-> Head(reply[t]).from,
                    body |-> HandlerResult(treq[t], Head(reply[t]).res)]
    /\ reply' = [reply EXCEPT ![t] = Tail(reply[t])]
    /\ tpc' = [tpc EXCEPT ![t] = "idle"]
    /\ treq' = [treq EXCEPT ![t] = None]
    /\ UNCHANGED <<file, breakpoints, bpLock, queue, recvLock, sessVars>>


(***************************************************************************)
(* The execution thread.                                                   *)
(***************************************************************************)
StoppedEvent == [event |-> "stopped", reason |-> "breakpoint", thread_id |-> 0,
                 all_threads_stopped |-> TRUE]
OutputEvent(text) == [event |-> "output", output |-> text]
ExitedEvent(code) == [event |-> "exited", exit_code |-> code]
TerminatedEvent == [event |-> "terminated"]

Last(q) == q[Len(q)]
Front(q) == SubSeq(q, 1, Len(q) - 1)

\* the statement the thread is at
CurStep(s) == Trace(spath[s])[ctx[s].idx]

\* the unit of work the thread is running
CurUnit(s) == Last(units[s])

\* the evaluations the thread has begun and not finished
Evaluating(s) == {i \in DOMAIN units[s] : units[s][i].old # Nothing}

Max(S) == CHOOSE x \in S : \A y \in S : y <= x

\* the span the innermost running hook invocation was called with
PauseSpan(s) ==
    IF Evaluating(s) = {} THEN CurStep(s).span
    ELSE ExprSpan(units[s][Max(Evaluating(s))].expr)

ShouldBreakNever(breaks, span_loc, span) == FALSE
\* the stop computation of the hook: the registry entry of the span's file
\* contains the span
ShouldBreak(breaks, span_loc, span) ==
    LET set == MapGet(breaks, span_loc.file)
    IN  IF set = Nothing THEN FALSE ELSE span \in Unwrap(set)

HookStopsAlways(c, path, span) == c.on_stmt
\* the interpreter calls on_stmt before a statement when it is installed
HookStops(c, path, span) ==
    c.on_stmt /\ ShouldBreak(breakpoints, SpanLoc(path, span), span)

\* f with the bindings of g added or replaced
Bind(f, g) == [n \in DOMAIN f \cup DOMAIN g |-> IF n \in DOMAIN g THEN g[n] ELSE f[n]]

\* eval_module once the hook has returned for the statement at c.idx: the
\* statement is executed, and the module ends with it or goes on to the next
ExecStmt(path, c) ==
    LET step == Trace(path)[c.idx]
    IN  IF Raises(step, c.vars)
        THEN [pc |-> "finished", c |-> c, res |-> Some(Err("division by zero"))]
        ELSE IF c.idx = Len(Trace(path))
        THEN [pc |-> "finished", c |-> [c EXCEPT !.vars = Bind(@, step.binds)],
              res |-> Some(Ok(ValueToString(ModuleValue(path))))]
        ELSE [pc |-> "stmt",
              c |-> [c EXCEPT !.vars = Bind(@, step.binds), !.idx = @ + 1],
              res |-> Nothing]

\* go up to eval_module: parse the file, build the Evaluator, install the hook
Go(s) ==
    /\ spc[s] = "spawned"
    /\ \E ast \in ParseResults(spath[s]) :
         IF ast = None
         THEN /\ res' = [res EXCEPT ![s] = Some(Err("parse error"))]
              /\ spc' = [spc EXCEPT ![s] = "finished"]
              /\ ctx' = ctx
         ELSE /\ ctx' = [ctx EXCEPT ![s] = [idx |-> 1, vars |-> NoBinds, on_stmt |-> TRUE]]
              /\ spc' = [spc EXCEPT ![s] = "stmt"]
              /\ res' = res
    /\ response' = NoResponse
    /\ UNCHANGED <<file, breakpoints, bpLock, queue, recvLock, protoVars, spath, units, events>>

StopGuardHeld(s, stop) == IF stop THEN s ELSE 0
\* holder of the registry mutex once the hook has computed stop: the guard
\* breaks is dropped at the end of the block that computes it
StopGuard(s, stop) == 0

\* the hook (fun) before a statement of the module: it stops and enters the
\* pause loop, or returns and the statement is executed
Stmt(s) ==
    /\ spc[s] = "stmt"
    /\ bpLock = 0
    /\ bpLock' = StopGuard(s, HookStops(ctx[s], spath[s], CurStep(s).span))
    /\ IF HookStops(ctx[s], spath[s], CurStep(s).span)
       THEN /\ events' = [events EXCEPT ![s] = Append(@, StoppedEvent)]
            /\ spc' = [spc EXCEPT ![s] = "lock"]
            /\ UNCHANGED <<ctx, res>>
       ELSE LET out == ExecStmt(spath[s], ctx[s])
            IN  /\ events' = events
                /\ spc' = [spc EXCEPT ![s] = out.pc]
                /\ ctx' = [ctx EXCEPT ![s] = out.c]
                /\ res' = [res EXCEPT ![s] = out.res]
    /\ response' = NoResponse
    /\ UNCHANGED <<file, breakpoints, queue, recvLock, protoVars, spath, units>>

\* pause loop: receiver.lock()
AcquireRecv(s) ==
    /\ spc[s] = "lock"
    /\ recvLock = 0
    /\ recvLock' = s
    /\ spc' = [spc EXCEPT ![s] = "recv"]
    /\ response' = NoResponse
    /\ UNCHANGED <<file, breakpoints, bpLock, queue, protoVars, spath, ctx, units, res, events>>

\* pause loop: .recv() returns a unit of work; the lock guard is dropped
Recv(s) ==
    /\ spc[s] = "recv"
    /\ queue # <<>>
    /\ units' = [units EXCEPT ![s] = Append(@, Head(queue))]
    /\ queue' = Tail(queue)
    /\ recvLock' = 0
    /\ spc' = [spc EXCEPT ![s] = "run"]
    /\ response' = NoResponse
    /\ UNCHANGED <<file, breakpoints, bpLock, protoVars, spath, ctx, res, events>>

\* ctx.call_stack().to_diagnostic_frames(): the calls under way, oldest first
CallStack(c, path) == Trace(path)[c.idx].stack

\* debug::inspect_variables(ctx)
InspectVariables(c) == c.vars

UnitDrains(kind, span, c, path) ==
    IF kind = "continue" THEN [next |-> "Continue", res |-> UnitValue, c |-> c]
    ELSE IF kind = "stackTrace"
    THEN [next |-> "RemainPaused", c |-> c,
          res |-> StackTraceBody(CallStack(c, path), SpanLoc(path, span))]
    ELSE IF kind = "scopes"
    THEN [next |-> "RemainPaused", res |-> ScopesBody(InspectVariables(c)), c |-> c]
    ELSE [next |-> "RemainPaused", res |-> VariablesBody(InspectVariables(c)),
          c |-> [c EXCEPT !.vars = NoBinds]]
\* the closures of the handlers other than evaluate, applied to (span, ctx):
\* the directive, the result, and the Evaluator they leave
Unit(kind, span, c, path) ==
    LET out == IF kind = "continue" THEN InjectContinue
               ELSE IF kind = "stackTrace"
               THEN WithCtx(StackTraceBody(CallStack(c, path), SpanLoc(path, span)))
               ELSE IF kind = "scopes" THEN WithCtx(ScopesBody(InspectVariables(c)))
               ELSE WithCtx(VariablesBody(InspectVariables(c)))
    IN  [next |-> out.next, res |-> out.res, c |-> c]

ReplyToShared(cmd) == 1
\* the reply channel the closure built by inject sends to
ReplyTo(cmd) == cmd.from

\* sender.send(res) of the closure built by inject
SendReply(cmd, r) ==
    reply' = [reply EXCEPT ![ReplyTo(cmd)] = Append(@, [from |-> cmd.from, res |-> r])]

\* match msg(span, ctx): Continue leaves the pause loop, so the hook returns
\* to what called it (the module's statement, or the evaluation under way
\* beneath the unit); RemainPaused goes round the loop
AfterUnit(s, next, c) ==
    IF next = "Continue"
    THEN IF Evaluating(s) \ {Len(units[s])} = {}
         THEN ExecStmt(spath[s], c)
         ELSE [pc |-> "evalexec", c |-> c, res |-> Nothing]
    ELSE [pc |-> "lock", c |-> c, res |-> Nothing]

TakeHookLeaves(c) == c
\* mem::take(&mut ctx.on_stmt)
TakeHook(c) == [c EXCEPT !.on_stmt = FALSE]

RestoreHookOnSuccess(c, old, r) == IF r.ok THEN [c EXCEPT !.on_stmt = old] ELSE c
\* ctx.on_stmt = old; r is the outcome of debug::evaluate
RestoreHook(c, old, r) == [c EXCEPT !.on_stmt = old]

\* pause loop: msg(span, ctx).  A unit other than evaluate runs to its end.
\* evaluate takes the hook and enters debug::evaluate, where the
\* interpreter reaches the statement of the expression and calls the hook
\* if one is installed.
RunMsg(s) ==
    /\ spc[s] = "run"
    /\ LET cmd == CurUnit(s)
       IN  IF cmd.kind = "evaluate"
           THEN LET c1 == TakeHook(ctx[s])
                IN  /\ units' = [units EXCEPT ![s][Len(units[s])].old = Some(ctx[s].on_stmt)]
                    /\ ctx' = [ctx EXCEPT ![s] = c1]
                    /\ IF HookStops(c1, spath[s], ExprSpan(cmd.expr))
                       THEN /\ events' = [events EXCEPT ![s] = Append(@, StoppedEvent)]
                            /\ spc' = [spc EXCEPT ![s] = "lock"]
                       ELSE /\ events' = events
                            /\ spc' = [spc EXCEPT ![s] = "evalexec"]
                    /\ UNCHANGED <<reply, res>>
           ELSE LET out == Unit(cmd.kind, PauseSpan(s), ctx[s], spath[s])
                    after == AfterUnit(s, out.next, out.c)
                IN  /\ SendReply(cmd, out.res)
                    /\ units' = [units EXCEPT ![s] = Front(@)]
                    /\ spc' = [spc EXCEPT ![s] = after.pc]
                    /\ ctx' = [ctx EXCEPT ![s] = after.c]
                    /\ res' = [res EXCEPT ![s] = after.res]
                    /\ events' = events
    /\ response' = NoResponse
    /\ UNCHANGED <<file, breakpoints, bpLock, queue, recvLock, tpc, treq, spath>>

\* debug::evaluate runs the expression; the closure restores the hook,
\* renders the result and returns
EvalExec(s) ==
    /\ spc[s] = "evalexec"
    /\ LET cmd == CurUnit(s)
           r == EvalResult(cmd.expr, ctx[s].vars)
           c1 == [ctx[s] EXCEPT !.vars = EvalBinds(cmd.expr, @)]
           c2 == RestoreHook(c1, Unwrap(cmd.old), r)
           out == WithCtx(EvaluateBody(Render(r)))
           after == AfterUnit(s, out.next, c2)
       IN  /\ SendReply(cmd, out.res)
           /\ units' = [units EXCEPT ![s] = Front(@)]
           /\ spc' = [spc EXCEPT ![s] = after.pc]
           /\ ctx' = [ctx EXCEPT ![s] = after.c]
           /\ res' = [res EXCEPT ![s] = after.res]
    /\ response' = NoResponse
    /\ UNCHANGED <<file, breakpoints, bpLock, queue, recvLock, tpc, treq, spath, events>>

FinalEventsExitZero(r) == << OutputEvent(r.v), ExitedEvent(0), TerminatedEvent >>
\* the events the spawned thread sends once go has returned r
FinalEvents(r) ==
    << OutputEvent(r.v), ExitedEvent(IF r.ok THEN 0 ELSE 1), TerminatedEvent >>

\* the spawned thread after go
Finish(s) ==
    /\ spc[s] = "finished"
    /\ events' = [events EXCEPT ![s] = @ \o FinalEvents(Unwrap(res[s]))]
    /\ spc' = [spc EXCEPT ![s] = "done"]
    /\ response' = NoResponse
    /\ UNCHANGED <<file, breakpoints, bpLock, queue, recvLock, protoVars, spath, ctx, units, res>>

(***************************************************************************)
(* Specifications.  Next is every request with every input.  Its graph    *)
(* is too large to enumerate, so the claims are checked under the          *)
(* specifications below: each takes the same actions and restricts only    *)
(* what the client sends.                                                  *)
(***************************************************************************)
\* the steps of the execution threads
SessionSteps ==
    \/ \E s \in Sessions : Go(s)
    \/ \E s \in Sessions : Stmt(s)
    \/ \E s \in Sessions : AcquireRecv(s)
    \/ \E s \in Sessions : Recv(s)
    \/ \E s \in Sessions : RunMsg(s)
    \/ \E s \in Sessions : EvalExec(s)
    \/ \E s \in Sessions : Finish(s)

\* the requests that inject work, sent on the threads T, and their returns
Injects(T) ==
    \/ \E t \in T : StackTrace(t)
    \/ \E t \in T : Scopes(t)
    \/ \E t \in T : Variables(t)
    \/ \E t \in T : Continue(t)
    \/ \E t \in T, e \in Exprs : Evaluate(t, e)
    \/ \E t \in T : InjectReturn(t)

Next ==
    \/ \E program \in Programs : Launch(program)
    \/ ConfigurationDone
    \/ \E source \in Files, lines \in LineLists, checked \in BOOLEAN :
          \E ast \in ParseResults(source) : SetBreakpoints(source, lines, ast, checked)
    \/ Injects(Threads)
    \/ SessionSteps

Spec == Init /\ [][Next]_vars

\* The client sends only setBreakpoints, with every input.
NextBreakpoints ==
    \E source \in Files, lines \in LineLists, checked \in BOOLEAN :
       \E ast \in ParseResults(source) : SetBreakpoints(source, lines, ast, checked)

SpecBreakpoints == Init /\ [][NextBreakpoints]_vars

\* One session: the client sends configurationDone only while no execution
\* thread exists, sends the injecting requests one at a time (on thread 1),
\* and names at most one line, a line of either file, in a setBreakpoints.
FileLines == 1..3
ShortLists == {<<>>} \cup {<<l>> : l \in FileLines}

NextSession ==
    \/ \E program \in Programs : Launch(program)
    \/ spc[1] = "unborn" /\ ConfigurationDone
    \/ \E source \in Files, lines \in ShortLists, checked \in {TRUE} :
          \E ast \in ParseResults(source) : SetBreakpoints(source, lines, ast, checked)
    \/ Injects({1})
    \/ SessionSteps

SpecSession == Init /\ [][NextSession]_vars

\* One session of b.star: as above, with b.star the only file launched and
\* named in a setBreakpoints.  The execution threads are scheduled: a thread
\* that can take a step takes one.
NextRun ==
    \/ \E program \in {FileB, None} : Launch(program)
    \/ spc[1] = "unborn" /\ ConfigurationDone
    \/ \E lines \in {<<>>, <<1>>, <<2>>}, checked \in {TRUE} :
          \E ast \in ParseResults(FileB) : SetBreakpoints(FileB, lines, ast, checked)
    \/ Injects({1})
    \/ SessionSteps

FairRun == Init /\ [][NextRun]_vars /\ WF_vars(SessionSteps)

\* Concurrent requests and sessions: every thread sends injecting requests,
\* configurationDone is sent at any time; the client launches b.star only
\* and sets or clears the breakpoint on its first line only.
NextConcurrent ==
    \/ \E program \in {FileB, None} : Launch(program)
    \/ ConfigurationDone
    \/ \E lines \in {<<>>, <<1>>}, checked \in {TRUE} :
          \E ast \in ParseResults(FileB) : SetBreakpoints(FileB, lines, ast, checked)
    \/ Injects(Threads)
    \/ SessionSteps

SpecConcurrent == Init /\ [][NextConcurrent]_vars

(***************************************************************************)
(* Claims about the breakpoint registry.                                   *)
(***************************************************************************)
\* the statements of file f that start on 0-based line k
StartingOn(f, k) == {i \in DOMAIN StmtLocations(f) : StmtLocations(f)[i].begin.line = k}

\* the response just given answers a setBreakpoints request
IsBreakpointsResponse == response.kind \in {"setBreakpoints", "panic"}

\* C6: setBreakpoints(file, lines) on a file that parses returns one
\* verified flag per requested line, in request order, true iff a statement
\* starts on 0-based line (requested line - 1); afterwards the registry
\* entry of the file is exactly the set of matched spans, and an empty line
\* list removes the entry and returns an empty result.
C6_VerifiedFlags ==
    /\ response.kind # "panic"
    /\ (response.kind = "setBreakpoints" /\ response.parsed = "yes") =>
          LET f == response.source
              lines == response.lines
              flags == response.breakpoints
              hits == {i \in DOMAIN lines : StartingOn(f, lines[i] - 1) # {}}
          IN  /\ Len(flags) = Len(lines)
              /\ \A i \in DOMAIN lines : flags[i].verified <=> i \in hits
              /\ f \in DOMAIN breakpoints
              /\ breakpoints[f] =
                    {StmtLocations(f)[Max(StartingOn(f, lines[i] - 1))] : i \in hits}
    /\ (response.kind = "setBreakpoints" /\ response.lines = <<>>) =>
          /\ response.breakpoints = <<>>
          /\ response.source \notin DOMAIN breakpoints

\* the part of C6 that the code keeps: the same, for requests it answers
C6_WhenAnswered == response.kind = "panic" \/ C6_VerifiedFlags

\* C7: setBreakpoints with a non-empty line list on a file that fails to
\* parse is answered, with verified=false for every requested line and as
\* many flags as lines; the file has no registry entry afterwards, and the
\* entries of all other files are as they were.
C7_UnparsedFile ==
    /\ [](response.kind = "setBreakpoints" /\ response.parsed = "no" =>
            /\ Len(response.breakpoints) = Len(response.lines)
            /\ \A i \in DOMAIN response.breakpoints : ~response.breakpoints[i].verified
            /\ response.source \notin DOMAIN breakpoints)
    /\ [][response'.kind = "setBreakpoints" /\ response'.parsed = "no" =>
            \A f \in Files \ {response'.source} :
                MapGet(breakpoints', f) = MapGet(breakpoints, f)]_vars

\* a request of two lines on a file that does not parse was answered while
\* the other file has breakpoints
C7_Witness ==
    /\ response.kind = "setBreakpoints"
    /\ response.parsed = "no"
    /\ Len(response.lines) = 2
    /\ \E f \in DOMAIN breakpoints : breakpoints[f] # {}

(***************************************************************************)
(* Claims about the translation of the call stack.                         *)
(***************************************************************************)
\* the 1-based location a response frame carries
FrameLoc(fr) ==
    [file |-> fr.source, line |-> fr.line, column |-> fr.column,
     end_line |-> fr.end_line, end_column |-> fr.end_column]

\* an interpreter location, every line and column plus 1
PlusOne(loc) ==
    [file |-> Some([path |-> loc.file]),
     line |-> loc.begin.line + 1, column |-> loc.begin.column + 1,
     end_line |-> Some(loc.end.line + 1), end_column |-> Some(loc.end.column + 1)]

\* C8: a stackTrace response taken at a pause has call-stack depth + 1
\* frames, and total_frames is that count; frame 0 carries the location of
\* the pause span and frame i >= 1 the call-site location recorded in the
\* (i-1)-th frame of the reversed call stack, each under the name of the
\* i-th reversed frame; the last frame is named Root and carries the
\* outermost call-site location; lines and columns are the interpreter's
\* 0-based values plus 1.  (Under SpecSession the session is still at the
\* pause when the response is returned.)
C8_StackTrace ==
    response.kind = "stackTrace" =>
        LET stack == CurStep(1).stack       \* oldest call first
            d == Len(stack)
            out == response.body.stack_frames
            pause == SpanLoc(spath[1], CurStep(1).span)
            \* the i-th frame of the reversed call stack, i from 0
            rev(i) == stack[d - i]
        IN  /\ Len(out) = d + 1
            /\ response.body.total_frames = d + 1
            /\ FrameLoc(out[1]) = PlusOne(pause)
            /\ \A i \in 1..d : FrameLoc(out[i + 1]) = PlusOne(Unwrap(rev(i - 1).location))
            /\ \A i \in 0..(d - 1) : out[i + 1].name = rev(i).name /\ out[i + 1].id = i
            /\ out[d + 1].name = "Root"
            /\ d > 0 => FrameLoc(out[d + 1]) = PlusOne(Unwrap(stack[1].location))

\* a stackTrace was answered at a pause two calls deep
C8_Witness ==
    /\ response.kind = "stackTrace"
    /\ response.body.total_frames = 3
    /\ spc[1] \in {"lock", "recv"}

(***************************************************************************)
(* Claims about the pause.                                                 *)
(***************************************************************************)
\* the thread is inside the pause loop of the hook
InPause(s) == spc[s] \in {"lock", "recv", "run", "evalexec"}

\* the thread is running an evaluate
InEvaluate(s) == units[s] # <<>> /\ CurUnit(s).kind = "evaluate" /\ spc[s] \in {"run", "evalexec"}

\* this step is a step of execution thread s
StepOf(s) == spc'[s] # spc[s] \/ ctx'[s] # ctx[s] \/ events'[s] # events[s]
                \/ units'[s] # units[s]

\* the registry holds the span of the statement the thread is at
AtBreakpoint(s) ==
    spath[s] \in DOMAIN breakpoints /\ CurStep(s).span \in breakpoints[spath[s]]

\* C9: an evaluate processed during a pause emits no stopped event and
\* enters no nested pause loop, also when the span of the expression's
\* statement is in the registry; the hook is removed while the expression
\* runs and is back afterwards, whether the expression succeeded or failed,
\* so a breakpoint reached later still stops the script.
C9_EvaluateKeepsPause ==
    /\ [](\A s \in Sessions :
            /\ Len(units[s]) <= 1
            /\ spc[s] = "evalexec" => ~ctx[s].on_stmt
            /\ spc[s] \in {"stmt", "lock", "recv", "run"} => ctx[s].on_stmt)
    /\ [][\A s \in Sessions :
            /\ (InEvaluate(s) /\ StepOf(s)) =>
                  /\ events'[s] = events[s]
                  /\ spc'[s] = IF spc[s] = "run" THEN "evalexec" ELSE "lock"
            /\ (spc[s] = "stmt" /\ AtBreakpoint(s) /\ StepOf(s)) =>
                  /\ events'[s] = Append(events[s], StoppedEvent)
                  /\ spc'[s] = "lock"]_vars

\* an evaluate is running whose statement has the span of a breakpoint of
\* the file being run
C9_Witness ==
    /\ spc[1] = "evalexec"
    /\ spath[1] \in DOMAIN breakpoints
    /\ ExprSpan(CurUnit(1).expr) \in breakpoints[spath[1]]

\* C2: while a session is paused at a breakpoint, answering stackTrace,
\* scopes, variables and evaluate requests never releases its pause: it
\* executes no further statement, emits no event and stays in the pause
\* loop until it has processed a unit of work whose directive is Continue
\* (the unit of a continue request).
C2_PauseHeld ==
    [][\A s \in Sessions :
         (InPause(s) /\ (~InPause(s)' \/ ctx'[s].idx # ctx[s].idx
                            \/ events'[s] # events[s] \/ res'[s] # res[s]))
         => (spc[s] = "run" /\ CurUnit(s).kind = "continue")]_vars

\* a paused session has just answered an evaluate and is still paused
C2_Witness ==
    /\ response.kind = "evaluate"
    /\ \E s \in Sessions :
         /\ spc[s] \in {"lock", "recv"}
         /\ \A u \in Sessions \ {s} : ~InPause(u)

(***************************************************************************)
(* Claims about the command channel.                                       *)
(***************************************************************************)
\* this step is a step of a protocol thread: a handler answered, or a
\* thread entered or left inject
ProtocolStep == response' # NoResponse \/ tpc' # tpc

\* C1 as stated: at most one injected unit of work is executing, whatever
\* launch and configurationDone requests were sent.
C1_OneUnitInFlight == Cardinality({s \in Sessions : units[s] # <<>>}) <= 1

\* C1 as the code has it: every execution thread runs at most one injected
\* unit of work at a time, inside its pause loop (threads of different
\* sessions can each be running one); a protocol thread never runs a unit
\* and never changes an Evaluator.
C1_OneUnitPerThread ==
    /\ [](\A s \in Sessions :
            /\ Len(units[s]) <= 1
            /\ units[s] # <<>> => spc[s] \in {"run", "evalexec"})
    /\ [][ProtocolStep => ctx' = ctx /\ units' = units]_vars

\* two execution threads are each running a unit of work
C1_Witness == \A s \in 1..2 : units[s] # <<>> /\ spc[s] \in {"run", "evalexec"}

\* the units of work of thread t that are on the channel or being run, and
\* the results on its reply channel
Pending(t) ==
    Cardinality({i \in DOMAIN queue : queue[i].from = t})
    + Cardinality({<<s, i>> \in Sessions \X (1..NThreads) :
                      i \in DOMAIN units[s] /\ units[s][i].from = t})
    + Len(reply[t])

\* the result is one the closure of the request kind builds
ResultOf(kind, r) ==
    IF kind = "continue" THEN r = UnitValue
    ELSE IF kind = "stackTrace" THEN DOMAIN r = {"total_frames", "stack_frames"}
    ELSE IF kind = "scopes" THEN DOMAIN r = {"scopes"}
    ELSE IF kind = "variables" THEN DOMAIN r = {"variables"}
    ELSE DOMAIN r = {"result", "variables_reference"}

\* C3: for inject calls made concurrently from different threads, each
\* submitted unit of work is on the channel, being run by one execution
\* thread, or has delivered its one result, never two of these and never
\* twice; a result reaches only the reply channel of the call whose unit
\* produced it, and inject returns only with the result of its own unit.
C3_OwnResult ==
    /\ [](\A t \in Threads :
            /\ Pending(t) = IF tpc[t] = "waiting" THEN 1 ELSE 0
            /\ \A i \in DOMAIN reply[t] :
                  reply[t][i].from = t /\ ResultOf(treq[t], reply[t][i].res))
    /\ [][\A t \in Threads :
            (tpc[t] = "waiting" /\ tpc'[t] = "idle") =>
               /\ reply[t] # <<>>
               /\ response'.thread = t /\ response'.from = t
               /\ response'.kind = treq[t]]_vars

\* the results of two concurrent calls are both waiting to be received
C3_Witness == \A t \in 1..2 : tpc[t] = "waiting" /\ reply[t] # <<>>

(***************************************************************************)
(* Claims about the events of a session.                                   *)
(***************************************************************************)
\* the events of kind k a session has sent
Count(s, k) == Cardinality({i \in DOMAIN events[s] : events[s][i].event = k})

\* the module ran to its end: the last statement was reached and executed
RanToEnd(s) ==
    /\ ctx[s].idx = Len(Trace(spath[s]))
    /\ DOMAIN CurStep(s).binds \subseteq DOMAIN ctx[s].vars

\* C5: a session that ends has sent exactly one output event, then one
\* exited event, then one terminated event, and before them stopped events
\* only; the exit code is 0 iff the file parsed and its evaluation
\* succeeded, and 1 otherwise; a session whose file did not parse never
\* sends a stopped event; until it ends a session sends stopped events only,
\* so no stopped event follows the output event.
C5_FinalEvents ==
    \A s \in Sessions :
       LET ev == events[s]
           n == Len(ev)
       IN  /\ spc[s] # "done" => \A i \in DOMAIN ev : ev[i].event = "stopped"
           /\ ctx[s].idx = 0 => Count(s, "stopped") = 0
           /\ spc[s] = "done" =>
                 /\ n >= 3
                 /\ \A i \in 1..(n - 3) : ev[i].event = "stopped"
                 /\ ev[n - 2].event = "output"
                 /\ ev[n - 1].event = "exited"
                 /\ ev[n].event = "terminated"
                 /\ ev[n - 1].exit_code = IF ctx[s].idx > 0 /\ RanToEnd(s) THEN 0 ELSE 1
                 /\ ev[n - 2].output =
                       IF ctx[s].idx = 0 THEN "parse error"
                       ELSE IF RanToEnd(s) THEN ValueToString(ModuleValue(spath[s]))
                       ELSE "division by zero"

\* a session that stopped at a breakpoint has ended with exit code 1
C5_Witness ==
    /\ spc[1] = "done"
    /\ Count(1, "stopped") >= 1
    /\ events[1][Len(events[1]) - 1].exit_code = 1

\* the events of a successful session that stopped once
OneStopThenSuccess(s) ==
    << StoppedEvent, OutputEvent(ValueToString(ModuleValue(spath[s]))),
       ExitedEvent(0), TerminatedEvent >>

\* C4: when the registry holds the first statement of the launched script,
\* launch and configurationDone yield one stopped event before any other
\* event of the session, and no further event while that pause lasts; once
\* a continue has released the pause the session goes on to a further
\* breakpoint or to its end, and if it ends without a further stop and
\* without an error its events are the stopped event, the output event,
\* exited with code 0 and terminated.
C4_StopThenFinish ==
    /\ [][\A s \in Sessions :
            (spc[s] = "stmt" /\ ctx[s].idx = 1 /\ AtBreakpoint(s) /\ StepOf(s)) =>
                /\ events[s] = <<>>
                /\ events'[s] = <<StoppedEvent>>
                /\ spc'[s] = "lock"]_vars
    /\ [](\A s \in Sessions :
            /\ (InPause(s) /\ ctx[s].idx = 1) => events[s] = <<StoppedEvent>>
            /\ (spc[s] = "done" /\ Count(s, "stopped") = 1 /\ RanToEnd(s)) =>
                  events[s] = OneStopThenSuccess(s))
    /\ \A s \in Sessions :
          (events[s] = <<StoppedEvent>> /\ spc[s] \in {"stmt", "finished"})
             ~> (InPause(s) \/ spc[s] = "done")

\* b.star stopped once, at its first statement, and ended with exit code 0
C4_Witness ==
    /\ spc[1] = "done"
    /\ spath[1] = FileB
    /\ events[1] = OneStopThenSuccess(1)
    /\ FileB \in DOMAIN breakpoints /\ breakpoints[FileB] = {B_asgn}

(***************************************************************************)
(* Claims about the variables request.                                     *)
(***************************************************************************)
\* what a variables request run by thread s now would return
VariablesNow(s) == VariablesBody(ctx[s].vars)

\* the result the unit being run has just sent
Sent(s) == Last(reply'[CurUnit(s).from]).res

ReadingExprs == {"y"}

C11_Launch ==
    /\ [][\A program \in Programs :
            Launch(program) =>
               /\ program # None => file' = program /\ response'.ok
               /\ program = None => file' = file /\ ~response'.ok]_vars
    /\ [][response'.kind = "launch" =>
            /\ response'.ok => file' \in Files
            /\ ~response'.ok => file' = file
            /\ breakpoints' = breakpoints
            /\ queue' = queue /\ reply' = reply
            /\ spc' = spc /\ spath' = spath /\ ctx' = ctx /\ units' = units
            /\ res' = res /\ events' = events]_vars

\* a launch without a program has failed while a target was set and a
\* session was paused
C11_Witness ==
    /\ response.kind = "launch" /\ ~response.ok
    /\ file # None
    /\ spc[1] \in {"lock", "recv"}

\* the execution threads that exist: spawned and not yet ended
Alive == {s \in Sessions : spc[s] \notin {"unborn", "done"}}

\* C12: after any sequence of launch and configurationDone requests at
\* most one execution thread exists.
C12_OneSession == Cardinality(Alive) <= 1

\* this step is a configurationDone
IsConfigurationDone == response'.kind = "configurationDone"

\* the execution threads this step spawns
Spawned == {s \in Sessions : spc[s] = "unborn" /\ spc'[s] # "unborn"}

\* C13: configurationDone starts an execution thread iff a pending launch
\* target is set, and consumes the target, so that a second
\* configurationDone with no launch in between starts none; with no target
\* set it changes nothing and emits no event.
C13_ConsumesTarget ==
    [][IsConfigurationDone =>
         /\ file # None => Cardinality(Spawned) = 1 /\ file' = None
         /\ file = None => Spawned = {} /\ spc' = spc /\ events' = events]_vars

\* the part of C13 that the code keeps: a thread is started iff a target is
\* set, it is given the target as its path, and the request never fails
C13_StartsIffTarget ==
    [][IsConfigurationDone =>
         /\ response'.ok
         /\ file # None => Cardinality(Spawned) = 1 /\ \A s \in Spawned : spath'[s] = file
         /\ file = None => Spawned = {} /\ spc' = spc /\ events' = events
         /\ events' = events /\ breakpoints' = breakpoints /\ queue' = queue]_vars

(***************************************************************************)
(* Claims about requests that find no pause loop.                          *)
(***************************************************************************)
\* the unit of work of thread t is on the channel
InQueue(t) == \E i \in DOMAIN queue : queue[i].from = t

C14_AfterEnd == tpc[1] = "waiting" /\ InQueue(1) /\ spc[1] = "done"

(***************************************************************************)
(* Claims about the order of the units of work.                            *)
(***************************************************************************)
\* this step sends a unit of work: inject appends it to the channel
Enqueues == \E t \in Threads :
               /\ tpc[t] = "idle" /\ tpc'[t] = "waiting"
               /\ Len(queue') = Len(queue) + 1
               /\ Front(queue') = queue
               /\ Last(queue').from = t /\ Last(queue').kind = treq'[t]

\* this step takes the oldest unit of work off the channel: an execution
\* thread that waits in the pause loop receives it
Dequeues(s) ==
    /\ spc[s] = "recv" /\ spc'[s] = "run"
    /\ queue # <<>> /\ queue' = Tail(queue)
    /\ units'[s] = Append(units[s], Head(queue))

\* C15: the channel changes only when inject appends a unit or an
\* execution thread in its pause loop takes the oldest one, and a unit is
\* taken only when every unit taken before it has finished running and sent
\* its result: no unit overtakes an earlier one.
C15_SubmissionOrder ==
    [][queue' # queue =>
          \/ Enqueues
          \/ \E s \in Sessions :
                Dequeues(s) /\ \A u \in Sessions : units[u] = <<>>]_vars

\* the part of C15 that the code keeps: units leave the channel oldest
\* first, taken by execution threads in the pause loop only, and each
\* thread finishes the unit it took before it takes another
C15_OldestFirst ==
    [][queue' # queue =>
          \/ Enqueues
          \/ \E s \in Sessions : Dequeues(s) /\ units[s] = <<>>]_vars

(***************************************************************************)
(* Claims about the Root frame.                                            *)
(***************************************************************************)
\* the frame named Root of the stackTrace response just given
RootFrame == response.body.stack_frames[Len(response.body.stack_frames)]

\* the resolved span of the statement session 1 is paused at
PauseLoc == SpanLoc(spath[1], CurStep(1).span)

\* C16 as stated: in every stackTrace response, whatever the depth of the
\* call stack, the frame named Root carries the pause span as its location.
C16_RootAtPause ==
    response.kind = "stackTrace" =>
        RootFrame.name = "Root" /\ FrameLoc(RootFrame) = PlusOne(PauseLoc)

\* C16 as the code has it: the frame named Root carries the pause span
\* only when the call stack is empty; at depth 1 or more the pause span is
\* the location of frame 0, and Root carries the call-site location of the
\* outermost call, which is another location.
C16_RootAtOutermostCall ==
    response.kind = "stackTrace" =>
        LET stack == CurStep(1).stack
        IN  /\ RootFrame.name = "Root" /\ RootFrame.id = 10000
            /\ FrameLoc(response.body.stack_frames[1]) = PlusOne(PauseLoc)
            /\ stack = <<>> => FrameLoc(RootFrame) = PlusOne(PauseLoc)
            /\ stack # <<>> =>
                  /\ FrameLoc(RootFrame) = PlusOne(Unwrap(stack[1].location))
                  /\ FrameLoc(RootFrame) # PlusOne(PauseLoc)

\* a stackTrace was answered at a pause inside a call: Root is not at the
\* pause span
C16_Witness ==
    /\ response.kind = "stackTrace"
    /\ spc[1] \in {"lock", "recv"}
    /\ CurStep(1).stack # <<>>
    /\ FrameLoc(RootFrame) # PlusOne(PauseLoc)

(***************************************************************************)
(* Claims about the hook.                                                  *)
(***************************************************************************)
\* the stopped event as the client sees it
BreakpointStop == [event |-> "stopped", reason |-> "breakpoint", thread_id |-> 0,
                   all_threads_stopped |-> TRUE]

\* C17: before each statement of the script the hook emits a stopped event
\* (reason breakpoint, thread id 0, all threads stopped) iff the registry
\* entry of the file holds the statement's span at that moment, and enters
\* the pause loop; otherwise the script proceeds, no event is emitted and no
\* unit of work is taken off the channel.  A unit is taken only after the
\* stopped event of the pause, and a pause emits no second event.
C17_StopsIffRegistered ==
    /\ [][\A s \in Sessions :
            (spc[s] = "stmt" /\ StepOf(s)) =>
               IF AtBreakpoint(s)
               THEN /\ events'[s] = Append(events[s], BreakpointStop)
                    /\ spc'[s] = "lock"
                    /\ ctx'[s] = ctx[s] /\ queue' = queue /\ units'[s] = <<>>
               ELSE /\ events'[s] = events[s]
                    /\ spc'[s] \in {"stmt", "finished"}
                    /\ queue' = queue /\ units'[s] = <<>>]_vars
    /\ [][\A s \in Sessions :
            /\ Dequeues(s) => events[s] # <<>> /\ Last(events[s]) = BreakpointStop
            /\ InPause(s) => events'[s] = events[s]]_vars
    /\ [](\A s \in Sessions :
            InPause(s) => events[s] # <<>> /\ Last(events[s]) = BreakpointStop)

\* a script has passed a statement without stopping and is paused at a
\* later one
C17_Witness ==
    /\ spc[1] \in {"lock", "recv"}
    /\ ctx[1].idx > 1
    /\ events[1] = <<BreakpointStop>>

(***************************************************************************)
(* Claims about the registry lock.                                         *)
(***************************************************************************)
\* some setBreakpoints request can be answered now
CanSetBreakpoints ==
    ENABLED (\E source \in Files, lines \in ShortLists :
                \E ast \in ParseResults(source) : SetBreakpoints(source, lines, ast, TRUE))

NobodyPaused == \A s \in Sessions : ~InPause(s)

\* the oldest unit of work on the channel is the unit of a continue
ContinueIsNext == queue # <<>> /\ Head(queue).kind = "continue"

C19_BeforeStart == spc[1] = "unborn" /\ ContinueIsNext /\ file = FileB

(***************************************************************************)
(* Claims about requested lines below 1.                                   *)
(***************************************************************************)
\* C20: for every requested line, 0 and negative values included, a
\* setBreakpoints request on a file that parses is answered and aborts
\* nothing; a requested line below 1 is reported verified=false and adds no
\* span to the registry.
C20_LineBelowOne ==
    /\ response.kind # "panic"
    /\ (response.kind = "setBreakpoints" /\ response.parsed = "yes") =>
          /\ \A i \in DOMAIN response.lines :
                response.lines[i] < 1 => ~response.breakpoints[i].verified
          /\ (\A i \in DOMAIN response.lines : response.lines[i] < 1)
                => breakpoints[response.source] = {}

\* the part of C20 that the code keeps: in a build that wraps on overflow,
\* and for negative lines in every build, the line is reported unverified
C20_WhenAnswered == response.kind = "panic" \/ C20_LineBelowOne

\* the request named line 0 only and the handler panicked
C20_Panicked == response.kind = "panic" /\ response.lines = <<0>>

\* a request naming a negative line was answered
C20_NegativeAnswered ==
    /\ response.kind = "setBreakpoints" /\ response.parsed = "yes"
    /\ response.lines = <<-1>>

=============================================================================
